---- MODULE Spec2Model ----
(***************************************************************************)
(* Recruiter/candidate chat tool: the simple variant (main.py) and the     *)
(* multi-resume variant (try.py).  The state is the module-level globals   *)
(* and the widgets of ChatApp that hold data; one action per Tk callback.  *)
(* analyze_conversation is split at root.update(), where Tk dispatches the *)
(* pending UI events (other callbacks) before the handler goes on.  An     *)
(* exception that leaves a callback is caught by Tk and printed; the       *)
(* dialogs are modal, so a callback that only shows one is a single step.  *)
(* Texts are sequences of one-character strings.                           *)
(***************************************************************************)
EXTENDS Integers, Sequences, FiniteSets, TLC

VARIABLES
    variant,                \* which program runs: "main" or "try"
    conversation_messages,  \* global list of {sender, message, timestamp}
    job_description,        \* global text, empty = not loaded
    candidate_resume,       \* main.py: global text, empty = not loaded
    candidate_resumes,      \* try.py: global list of resume texts
    resume_listbox,         \* try.py: names shown in the resume listbox
    interview_suggestions,  \* try.py: global list of stored suggestions
    suggestion_text,        \* try.py: text of the suggestion label
    current_sender,         \* the StringVar behind the sender radiobuttons
    status_label,           \* text of the status label
    results_windows,        \* open result windows, each holding its analysis
    update_depth,           \* analyze_conversation activations inside root.update()
    observed,               \* the callbacks whose steps the event records
    event,                  \* what the last step of an observed callback did
    call                    \* a function studied on its own: its inputs, its result

vars == <<variant, conversation_messages, job_description, candidate_resume,
          candidate_resumes, resume_listbox, interview_suggestions,
          suggestion_text, current_sender, status_label, results_windows,
          update_depth, observed, event, call>>

\* the state of the program, as opposed to the function studied on its own
program == <<variant, conversation_messages, job_description, candidate_resume,
             candidate_resumes, resume_listbox, interview_suggestions,
             suggestion_text, current_sender, status_label, results_windows,
             update_depth, observed, event>>

session == <<conversation_messages, job_description, candidate_resume,
             candidate_resumes, resume_listbox, interview_suggestions,
             suggestion_text, current_sender, status_label>>

docs == <<job_description, candidate_resume, candidate_resumes, resume_listbox>>

--------------------------------------------------------------------------
(* Bounds *)

MaxMsgs == 4
MaxResumes == 1
MaxWindows == 1
MaxDepth == 1
MaxContentLen == 6

--------------------------------------------------------------------------
(* Characters and texts *)

BS == "\\"
NL == "\n"
Whitespace == {" ", NL}
Empty == << >>

RECURSIVE lstrip(_)
lstrip(s) ==
    IF s # Empty /\ Head(s) \in Whitespace THEN lstrip(Tail(s)) ELSE s

RECURSIVE rstrip(_)
rstrip(s) ==
    IF s # Empty /\ s[Len(s)] \in Whitespace
    THEN rstrip(SubSeq(s, 1, Len(s) - 1)) ELSE s

\* strip() that forgets the right end
strip_left_only(s) == lstrip(s)

\* str.strip()
strip(s) == rstrip(lstrip(s))

\* number of consecutive backslashes of s from position i on
RECURSIVE BackslashRun(_, _)
BackslashRun(s, i) ==
    IF i <= Len(s) /\ s[i] = BS THEN 1 + BackslashRun(s, i + 1) ELSE 0

\* re.sub(r"\\(.?)\\*", r"\1", s) from position i on: a match starts at a
\* backslash, takes one following character when there is one that is not a
\* newline, then every backslash that follows; group 1 replaces the match.
RECURSIVE re_sub_from(_, _)
re_sub_from(s, i) ==
    IF i > Len(s) THEN Empty
    ELSE IF s[i] # BS THEN <<s[i]>> \o re_sub_from(s, i + 1)
    ELSE LET hasGroup == i + 1 <= Len(s) /\ s[i + 1] # NL
             group == IF hasGroup THEN <<s[i + 1]>> ELSE Empty
             after == IF hasGroup THEN i + 2 ELSE i + 1
         IN  group \o re_sub_from(s, after + BackslashRun(s, after))

\* the cleanup applied to response.content
cleanup(content) == strip(re_sub_from(content, 1))

--------------------------------------------------------------------------
(* Files *)

PdfExt == <<".", "p", "d", "f">>

endswith(s, suffix) ==
    /\ Len(s) >= Len(suffix)
    /\ SubSeq(s, Len(s) - Len(suffix) + 1, Len(s)) = suffix

\* os.path.basename: what follows the last "/"
RECURSIVE basename(_)
basename(path) ==
    IF \E i \in 1..Len(path) : path[i] = "/"
    THEN basename(Tail(path)) ELSE path

DocPdf == <<"d", "/", "r", ".", "p", "d", "f">>
BlankTxt == <<"d", "/", "e", ".", "t", "x", "t">>
BadTxt == <<"d", "/", "x", ".", "t", "x", "t">>

\* the files the dialogs can return: a PDF whose second page has no text
\* layer, an empty text file, and a text file that cannot be decoded
Disk ==
    (DocPdf :> [readable |-> TRUE, data |-> Empty, pages |-> << <<"r">>, Empty >>]) @@
    (BlankTxt :> [readable |-> TRUE, data |-> Empty, pages |-> << >>]) @@
    (BadTxt :> [readable |-> FALSE, data |-> Empty, pages |-> << >>])

Paths == DOMAIN Disk
\* askopenfilename: a path, or the empty string when the dialog is cancelled
FilePicks == Paths \cup {Empty}

RECURSIVE pdf_pages_text(_)
pdf_pages_text(pages) ==
    IF pages = << >> THEN Empty
    ELSE (IF Head(pages) # Empty THEN Head(pages) \o <<NL>> ELSE Empty)
         \o pdf_pages_text(Tail(pages))

extract_text_from_pdf(pdf_path) == strip(pdf_pages_text(Disk[pdf_path].pages))

\* a read that swallows the error and yields an empty text
read_document_swallows(file_path) ==
    IF ~Disk[file_path].readable THEN [raised |-> FALSE, text |-> Empty]
    ELSE IF endswith(file_path, PdfExt)
         THEN [raised |-> FALSE, text |-> extract_text_from_pdf(file_path)]
         ELSE [raised |-> FALSE, text |-> Disk[file_path].data]

\* the expression both load handlers evaluate; raised when the file cannot be read
read_document(file_path) ==
    IF ~Disk[file_path].readable THEN [raised |-> TRUE, text |-> Empty]
    ELSE IF endswith(file_path, PdfExt)
         THEN [raised |-> FALSE, text |-> extract_text_from_pdf(file_path)]
         ELSE [raised |-> FALSE, text |-> Disk[file_path].data]

--------------------------------------------------------------------------
(* The hosted model *)

\* what llm.invoke can do: raise, or return a response with some content
LLMReplies ==
    { [ok |-> FALSE, content |-> Empty],
      [ok |-> TRUE, content |-> <<BS, "*", "q", BS, "*">>],
      [ok |-> TRUE, content |-> <<" ">>] }

\* the replies tried for the two prompts of a full analysis
AnalysisReplies ==
    { [ok |-> FALSE, content |-> Empty],
      [ok |-> TRUE, content |-> <<BS, "*", "q", BS, "*">>] }

\* "\n".join(f"{msg['sender']}: {msg['message']}" for msg in msgs): the
\* sender/message pairs in order, timestamps left out
transcript(msgs) ==
    [i \in 1..Len(msgs) |-> <<msgs[i].sender, msgs[i].message>>]

\* msgs[-3:]
last3(msgs) ==
    IF Len(msgs) <= 3 THEN msgs ELSE SubSeq(msgs, Len(msgs) - 2, Len(msgs))

Timestamps == {"10:00:00"}

\* what the user can have typed into message_input
TypedTexts == { <<" ">>, <<" ", "a", " ">> }

Senders == {"Recruiter", "Candidate"}

--------------------------------------------------------------------------
(* Status label texts *)

StatusInitial == "Please load job description and resume"
StatusJdOnly == "Job description loaded. Please load resume."
StatusResumeOnly == "Resume loaded. Please load job description."
StatusMatch == "Initial Resume Match: {score:.1f}/10"
StatusAnalyzing == "Analyzing conversation... Please wait."
StatusComplete == "Analysis complete"

\* main.py update_status
Main_update_status(jd, resume) ==
    IF jd # Empty /\ resume # Empty THEN StatusMatch
    ELSE IF jd # Empty THEN StatusJdOnly
    ELSE IF resume # Empty THEN StatusResumeOnly
    ELSE StatusInitial

\* try.py update_status
Try_update_status(jd, resumes) ==
    IF jd # Empty /\ resumes # << >> THEN StatusMatch
    ELSE IF jd # Empty THEN StatusJdOnly
    ELSE IF resumes # << >> THEN StatusResumeOnly
    ELSE StatusInitial

\* the calls of calculate_match_score a step makes: the arguments of each
NoScores == << >>

\* main.py update_status: the score is computed in the first branch only
Main_update_status_scores(jd, resume) ==
    IF jd # Empty /\ resume # Empty
    THEN <<[jd |-> jd, resume |-> resume]>> ELSE NoScores

\* try.py update_status: the score is that of the first resume of the list
Try_update_status_scores(jd, resumes) ==
    IF jd # Empty /\ resumes # << >>
    THEN <<[jd |-> jd, resume |-> resumes[1]]>> ELSE NoScores

--------------------------------------------------------------------------
(* What a callback step did: its input, its outcome, whether an exception  *)
(* left the callback, whether a call to the model failed, the dialog it    *)
(* showed, the prompts it sent to the model, in order, the calls of        *)
(* calculate_match_score it made and the report it wrote.  A specification *)
(* fixes the callbacks it observes; a step of any other callback is        *)
(* recorded as Quiet.                                                      *)

NoPrompts == << >>

NoReport == [kind |-> "none"]

Quiet ==
    [op |-> "other", arg |-> Empty, result |-> "none", raised |-> FALSE,
     failed |-> FALSE, dialog |-> "none", prompts |-> NoPrompts,
     scored |-> NoScores, report |-> NoReport]

Ev(op, arg, result, raised, failed, dialog, prompts) ==
    IF op \in observed
    THEN [op |-> op, arg |-> arg, result |-> result, raised |-> raised,
          failed |-> failed, dialog |-> dialog, prompts |-> prompts,
          scored |-> NoScores, report |-> NoReport]
    ELSE Quiet

\* the step ev also called calculate_match_score; when the calls themselves
\* are observed, a step of an unobserved callback is recorded by its calls
Scoring(ev, calls) ==
    IF calls = NoScores THEN ev
    ELSE IF ev # Quiet THEN [ev EXCEPT !.scored = calls]
    ELSE IF "calculate_match_score" \in observed
    THEN [Quiet EXCEPT !.op = "calculate_match_score", !.scored = calls]
    ELSE Quiet

\* the step ev also wrote a report
Reporting(ev, report) ==
    IF ev = Quiet THEN Quiet ELSE [ev EXCEPT !.report = report]

\* what a results window remembers of the analysis it shows, for the
\* observer of the save callbacks: the number of messages sent to the model
Remembered(n) == IF "save_analysis" \in observed THEN n ELSE 0

\* no function is studied on its own while the program runs
NoCall == [fn |-> "none", args |-> Empty, done |-> FALSE, result |-> Empty]

AnalyzeOps == {"analyze_conversation"}
ChatOps == {"send_message", "clear_chat"}
LoadOps == {"load_job_description", "load_candidate_resume"}
SaveOps == {"save_analysis", "save_report"}
ScoreOps == {"calculate_match_score"}

--------------------------------------------------------------------------
(* Prompts and remote calls *)

\* main.py analyze_candidate_fit: the prompt, and the cleaned response
Main_fit_prompt(msgs, jd, resume) ==
    [template |-> "fit", job_description |-> jd, resume |-> <<resume>>,
     conversation |-> transcript(msgs)]

Main_analyze_candidate_fit(msgs, jd, resume, reply) ==
    [prompts |-> <<Main_fit_prompt(msgs, jd, resume)>>,
     raised |-> ~reply.ok,
     text |-> IF reply.ok THEN cleanup(reply.content) ELSE Empty]

\* try.py analyze_candidate_fit: the resumes are joined into one block
Try_analyze_candidate_fit(msgs, jd, resumes, reply) ==
    [prompts |-> <<[template |-> "fit", job_description |-> jd,
                    resume |-> resumes, conversation |-> transcript(msgs)]>>,
     raised |-> ~reply.ok,
     text |-> IF reply.ok THEN cleanup(reply.content) ELSE Empty]

\* try.py generate_interview_questions(jd, resume)
generate_interview_questions(jd, resumes, reply) ==
    [prompts |-> <<[template |-> "questions", job_description |-> jd,
                    resume |-> resumes, conversation |-> << >>]>>,
     raised |-> ~reply.ok,
     text |-> IF reply.ok THEN cleanup(reply.content) ELSE Empty]

\* the suggestion without its try/except: the exception of the call escapes
generate_dynamic_interview_suggestion_uncaught(msgs, jd, resumes, reply) ==
    IF Len(msgs) < 2 \/ jd = Empty \/ resumes = << >>
    THEN [prompts |-> NoPrompts, raised |-> FALSE, some |-> FALSE, text |-> Empty]
    ELSE LET prompt == [template |-> "suggestion", job_description |-> jd,
                        resume |-> << >>, conversation |-> transcript(last3(msgs))]
         IN  IF reply.ok
             THEN [prompts |-> <<prompt>>, raised |-> FALSE, some |-> TRUE,
                   text |-> cleanup(reply.content)]
             ELSE [prompts |-> <<prompt>>, raised |-> TRUE, some |-> FALSE,
                   text |-> Empty]

\* the suggestion with a guard that forgets the job description
generate_dynamic_interview_suggestion_no_jd_check(msgs, jd, resumes, reply) ==
    IF Len(msgs) < 2 \/ resumes = << >>
    THEN [prompts |-> NoPrompts, raised |-> FALSE, some |-> FALSE, text |-> Empty]
    ELSE LET prompt == [template |-> "suggestion", job_description |-> jd,
                        resume |-> << >>, conversation |-> transcript(last3(msgs))]
         IN  IF reply.ok
             THEN [prompts |-> <<prompt>>, raised |-> FALSE, some |-> TRUE,
                   text |-> cleanup(reply.content)]
             ELSE [prompts |-> <<prompt>>, raised |-> FALSE, some |-> FALSE,
                   text |-> Empty]

\* try.py generate_dynamic_interview_suggestion: None unless the guard lets
\* the call happen and the call returns; an exception of the call is caught
generate_dynamic_interview_suggestion(msgs, jd, resumes, reply) ==
    IF Len(msgs) < 2 \/ jd = Empty \/ resumes = << >>
    THEN [prompts |-> NoPrompts, raised |-> FALSE, some |-> FALSE, text |-> Empty]
    ELSE LET prompt == [template |-> "suggestion", job_description |-> jd,
                        resume |-> << >>, conversation |-> transcript(last3(msgs))]
         IN  IF reply.ok
             THEN [prompts |-> <<prompt>>, raised |-> FALSE, some |-> TRUE,
                   text |-> cleanup(reply.content)]
             ELSE [prompts |-> <<prompt>>, raised |-> FALSE, some |-> FALSE,
                   text |-> Empty]

--------------------------------------------------------------------------
(* State after construction: setup_ui, then prompt_load_files, where the   *)
(* user may load a job description and a resume (a load that raises ends   *)
(* the program before the window exists).                                  *)

StartPicks == {Empty} \cup {p \in Paths : Disk[p].readable}

Init ==
    \E v \in {"main", "try"}, yes \in BOOLEAN, jdPick \in StartPicks, cvPick \in StartPicks :
        LET jd == IF yes /\ jdPick # Empty THEN read_document(jdPick).text ELSE Empty
            cvLoaded == yes /\ cvPick # Empty
            cv == IF cvLoaded THEN read_document(cvPick).text ELSE Empty
        IN  /\ variant = v
            /\ conversation_messages = << >>
            /\ job_description = jd
            /\ candidate_resume = IF v = "main" THEN cv ELSE Empty
            /\ candidate_resumes = IF v = "try" /\ cvLoaded THEN <<cv>> ELSE << >>
            /\ resume_listbox = IF v = "try" /\ cvLoaded THEN <<basename(cvPick)>> ELSE << >>
            /\ interview_suggestions = << >>
            /\ suggestion_text = Empty
            /\ current_sender = "Recruiter"
            /\ status_label = IF v = "main" THEN Main_update_status(jd, cv)
                              ELSE Try_update_status(jd, IF cvLoaded THEN <<cv>> ELSE << >>)
            /\ results_windows = << >>
            /\ update_depth = 0
            /\ observed \in {AnalyzeOps, ChatOps, LoadOps, SaveOps, ScoreOps}
            /\ event = Scoring(Quiet,
                               IF v = "main" THEN Main_update_status_scores(jd, cv)
                               ELSE Try_update_status_scores(jd, IF cvLoaded THEN <<cv>>
                                                                 ELSE << >>))
            /\ call = NoCall

--------------------------------------------------------------------------
(* main.py callbacks.  Widget styling (button colours, text tags, scroll   *)
(* position) holds no data and is left out; chat_display always renders    *)
(* conversation_messages.                                                  *)

Main_load_job_description(file_path) ==
    /\ variant = "main"
    /\ IF file_path = Empty
       THEN /\ event' = Ev("load_job_description", file_path, "cancelled", FALSE, FALSE, "none", NoPrompts)
            /\ UNCHANGED <<job_description, status_label>>
       ELSE LET doc == read_document(file_path) IN
            IF doc.raised
            THEN /\ event' = Ev("load_job_description", file_path, "raised", TRUE, FALSE, "none", NoPrompts)
                 /\ UNCHANGED <<job_description, status_label>>
            ELSE /\ job_description' = doc.text
                 /\ status_label' = Main_update_status(doc.text, candidate_resume)
                 /\ event' = Scoring(Ev("load_job_description", file_path, "loaded", FALSE, FALSE,
                                        "none", NoPrompts),
                                     Main_update_status_scores(doc.text, candidate_resume))
    /\ UNCHANGED <<variant, observed, call, conversation_messages, candidate_resume, candidate_resumes,
                   resume_listbox, interview_suggestions, suggestion_text,
                   current_sender, results_windows, update_depth>>

Main_load_candidate_resume(file_path) ==
    /\ variant = "main"
    /\ IF file_path = Empty
       THEN /\ event' = Ev("load_candidate_resume", file_path, "cancelled", FALSE, FALSE, "none", NoPrompts)
            /\ UNCHANGED <<candidate_resume, status_label>>
       ELSE LET doc == read_document(file_path) IN
            IF doc.raised
            THEN /\ event' = Ev("load_candidate_resume", file_path, "raised", TRUE, FALSE, "none", NoPrompts)
                 /\ UNCHANGED <<candidate_resume, status_label>>
            ELSE /\ candidate_resume' = doc.text
                 /\ status_label' = Main_update_status(job_description, doc.text)
                 /\ event' = Scoring(Ev("load_candidate_resume", file_path, "loaded", FALSE, FALSE,
                                        "none", NoPrompts),
                                     Main_update_status_scores(job_description, doc.text))
    /\ UNCHANGED <<variant, observed, call, conversation_messages, job_description, candidate_resumes,
                   resume_listbox, interview_suggestions, suggestion_text,
                   current_sender, results_windows, update_depth>>

\* message_input.get("1.0", tk.END): the typed text and the newline Tk adds
input_get(typed) == typed \o <<NL>>

\* an insert at the front instead of an append
append_message_at_front(msgs, record) == <<record>> \o msgs

\* conversation_messages.append({...}) of send_message, in both programs
append_message(msgs, record) == Append(msgs, record)

toggle(sender) == IF sender = "Recruiter" THEN "Candidate" ELSE "Recruiter"

Main_send_message(typed, timestamp) ==
    /\ variant = "main"
    /\ LET message == strip(input_get(typed)) IN
       IF message = Empty
       THEN /\ event' = Ev("send_message", typed, "blank", FALSE, FALSE, "none", NoPrompts)
            /\ UNCHANGED <<conversation_messages, current_sender>>
       ELSE /\ Len(conversation_messages) < MaxMsgs
            /\ conversation_messages' = append_message(conversation_messages,
                   [sender |-> current_sender, message |-> message, timestamp |-> timestamp])
            /\ current_sender' = toggle(current_sender)
            /\ event' = Ev("send_message", typed, "sent", FALSE, FALSE, "none", NoPrompts)
    /\ UNCHANGED <<variant, observed, call, job_description, candidate_resume, candidate_resumes,
                   resume_listbox, interview_suggestions, suggestion_text,
                   status_label, results_windows, update_depth>>

\* the validation with the length test off by one
Main_validate_off_by_one(jd, resume, msgs) ==
    IF jd = Empty \/ resume = Empty THEN "no_documents"
    ELSE IF Len(msgs) < 2 THEN "too_short"
    ELSE "ok"

\* the validation at the head of main.py analyze_conversation
Main_validate(jd, resume, msgs) ==
    IF jd = Empty \/ resume = Empty THEN "no_documents"
    ELSE IF Len(msgs) < 3 THEN "too_short"
    ELSE "ok"

\* analyze_conversation up to root.update()
Main_analyze_conversation ==
    /\ variant = "main"
    /\ LET check == Main_validate(job_description, candidate_resume, conversation_messages) IN
       IF check = "no_documents"
       THEN /\ event' = Ev("analyze_conversation", Empty, "no_documents", FALSE, FALSE, "showerror", NoPrompts)
            /\ UNCHANGED <<status_label, update_depth>>
       ELSE IF check = "too_short"
       THEN /\ event' = Ev("analyze_conversation", Empty, "too_short", FALSE, FALSE, "showwarning", NoPrompts)
            /\ UNCHANGED <<status_label, update_depth>>
       ELSE /\ update_depth < MaxDepth
            /\ update_depth + Len(results_windows) < MaxWindows
            /\ status_label' = StatusAnalyzing
            /\ update_depth' = update_depth + 1
            /\ event' = Ev("analyze_conversation", Empty, "updating", FALSE, FALSE, "none", NoPrompts)
    /\ UNCHANGED <<variant, observed, call, conversation_messages, job_description, candidate_resume,
                   candidate_resumes, resume_listbox, interview_suggestions,
                   suggestion_text, current_sender, results_windows>>

\* analyze_conversation after root.update() returned: the remote call, then
\* show_analysis_results; an exception of the call leaves the callback
Main_analyze_conversation_resume(reply) ==
    /\ variant = "main"
    /\ update_depth > 0
    /\ update_depth' = update_depth - 1
    /\ LET fit == Main_analyze_candidate_fit(conversation_messages, job_description,
                                             candidate_resume, reply) IN
       IF fit.raised
       THEN /\ event' = Ev("analyze_conversation", Empty, "call_raised", TRUE, TRUE, "none", fit.prompts)
            /\ UNCHANGED <<status_label, results_windows>>
       ELSE /\ status_label' = StatusComplete
            /\ results_windows' = Append(results_windows,
                     [analysis |-> fit.text, questions |-> Empty,
                      messages_sent |-> Remembered(Len(fit.prompts[1].conversation))])
            /\ event' = Ev("analyze_conversation", Empty, "shown", FALSE, FALSE, "none", fit.prompts)
    /\ UNCHANGED <<variant, observed, call, conversation_messages, job_description, candidate_resume,
                   candidate_resumes, resume_listbox, interview_suggestions,
                   suggestion_text, current_sender>>

Main_clear_chat(yes) ==
    /\ variant = "main"
    /\ IF yes
       THEN /\ conversation_messages' = << >>
            /\ current_sender' = "Recruiter"
            /\ event' = Ev("clear_chat", <<"yes">>, "cleared", FALSE, FALSE, "askyesno", NoPrompts)
       ELSE /\ event' = Ev("clear_chat", <<"no">>, "declined", FALSE, FALSE, "askyesno", NoPrompts)
            /\ UNCHANGED <<conversation_messages, current_sender>>
    /\ UNCHANGED <<variant, observed, call, job_description, candidate_resume, candidate_resumes,
                   resume_listbox, interview_suggestions, suggestion_text,
                   status_label, results_windows, update_depth>>

--------------------------------------------------------------------------
(* try.py callbacks *)

Try_load_job_description(file_path) ==
    /\ variant = "try"
    /\ IF file_path = Empty
       THEN /\ event' = Ev("load_job_description", file_path, "cancelled", FALSE, FALSE, "none", NoPrompts)
            /\ UNCHANGED <<job_description, status_label>>
       ELSE LET doc == read_document(file_path) IN
            IF doc.raised
            THEN /\ event' = Ev("load_job_description", file_path, "raised", TRUE, FALSE, "none", NoPrompts)
                 /\ UNCHANGED <<job_description, status_label>>
            ELSE /\ job_description' = doc.text
                 /\ status_label' = Try_update_status(doc.text, candidate_resumes)
                 /\ event' = Scoring(Ev("load_job_description", file_path, "loaded", FALSE, FALSE,
                                        "none", NoPrompts),
                                     Try_update_status_scores(doc.text, candidate_resumes))
    /\ UNCHANGED <<variant, observed, call, conversation_messages, candidate_resume, candidate_resumes,
                   resume_listbox, interview_suggestions, suggestion_text,
                   current_sender, results_windows, update_depth>>

\* the load that forgets to show the name of the file in the listbox
Try_load_candidate_resume_no_listbox(file_path) ==
    /\ variant = "try"
    /\ IF file_path = Empty
       THEN /\ event' = Ev("load_candidate_resume", file_path, "cancelled", FALSE, FALSE, "none", NoPrompts)
            /\ UNCHANGED <<candidate_resumes, resume_listbox, status_label>>
       ELSE LET doc == read_document(file_path) IN
            IF doc.raised
            THEN /\ event' = Ev("load_candidate_resume", file_path, "raised", TRUE, FALSE, "none", NoPrompts)
                 /\ UNCHANGED <<candidate_resumes, resume_listbox, status_label>>
            ELSE /\ Len(candidate_resumes) < MaxResumes
                 /\ candidate_resumes' = Append(candidate_resumes, doc.text)
                 /\ UNCHANGED resume_listbox
                 /\ status_label' = Try_update_status(job_description, candidate_resumes')
                 /\ event' = Scoring(Ev("load_candidate_resume", file_path, "loaded", FALSE, FALSE,
                                        "none", NoPrompts),
                                     Try_update_status_scores(job_description, candidate_resumes'))
    /\ UNCHANGED <<variant, observed, call, conversation_messages, job_description, candidate_resume,
                   interview_suggestions, suggestion_text, current_sender,
                   results_windows, update_depth>>

Try_load_candidate_resume(file_path) ==
    /\ variant = "try"
    /\ IF file_path = Empty
       THEN /\ event' = Ev("load_candidate_resume", file_path, "cancelled", FALSE, FALSE, "none", NoPrompts)
            /\ UNCHANGED <<candidate_resumes, resume_listbox, status_label>>
       ELSE LET doc == read_document(file_path) IN
            IF doc.raised
            THEN /\ event' = Ev("load_candidate_resume", file_path, "raised", TRUE, FALSE, "none", NoPrompts)
                 /\ UNCHANGED <<candidate_resumes, resume_listbox, status_label>>
            ELSE /\ Len(candidate_resumes) < MaxResumes
                 /\ candidate_resumes' = Append(candidate_resumes, doc.text)
                 /\ resume_listbox' = Append(resume_listbox, basename(file_path))
                 /\ status_label' = Try_update_status(job_description, candidate_resumes')
                 /\ event' = Scoring(Ev("load_candidate_resume", file_path, "loaded", FALSE, FALSE,
                                        "none", NoPrompts),
                                     Try_update_status_scores(job_description, candidate_resumes'))
    /\ UNCHANGED <<variant, observed, call, conversation_messages, job_description, candidate_resume,
                   interview_suggestions, suggestion_text, current_sender,
                   results_windows, update_depth>>

Try_send_message(typed, timestamp, reply) ==
    /\ variant = "try"
    /\ LET message == strip(input_get(typed)) IN
       IF message = Empty
       THEN /\ event' = Ev("send_message", typed, "blank", FALSE, FALSE, "none", NoPrompts)
            /\ UNCHANGED <<conversation_messages, interview_suggestions,
                           suggestion_text, current_sender>>
       ELSE /\ Len(conversation_messages) < MaxMsgs
            /\ conversation_messages' = append_message(conversation_messages,
                   [sender |-> current_sender, message |-> message, timestamp |-> timestamp])
            /\ IF Len(conversation_messages') > 3
               THEN LET s == generate_dynamic_interview_suggestion(
                                 conversation_messages', job_description,
                                 candidate_resumes, reply)
                        failed == s.prompts # NoPrompts /\ ~reply.ok
                    IN
                    IF s.raised
                    THEN /\ event' = Ev("send_message", typed, "suggestion_raised", TRUE, failed, "none", s.prompts)
                         /\ UNCHANGED <<interview_suggestions, suggestion_text, current_sender>>
                    ELSE IF s.some /\ s.text # Empty
                    THEN /\ interview_suggestions' = Append(interview_suggestions, s.text)
                         /\ suggestion_text' = s.text
                         /\ current_sender' = toggle(current_sender)
                         /\ event' = Ev("send_message", typed, "suggested", FALSE, failed, "none", s.prompts)
                    ELSE /\ suggestion_text' = Empty
                         /\ current_sender' = toggle(current_sender)
                         /\ event' = Ev("send_message", typed, "no_suggestion", FALSE, failed, "none", s.prompts)
                         /\ UNCHANGED interview_suggestions
               ELSE /\ current_sender' = toggle(current_sender)
                    /\ event' = Ev("send_message", typed, "sent", FALSE, FALSE, "none", NoPrompts)
                    /\ UNCHANGED <<interview_suggestions, suggestion_text>>
    /\ UNCHANGED <<variant, observed, call, job_description, candidate_resume, candidate_resumes,
                   resume_listbox, status_label, results_windows, update_depth>>

\* the validation at the head of try.py analyze_conversation
Try_validate(jd, resumes, msgs) ==
    IF jd = Empty \/ resumes = << >> THEN "no_documents"
    ELSE IF Len(msgs) < 3 THEN "too_short"
    ELSE "ok"

\* analyze_conversation up to root.update()
Try_analyze_conversation ==
    /\ variant = "try"
    /\ LET check == Try_validate(job_description, candidate_resumes, conversation_messages) IN
       IF check = "no_documents"
       THEN /\ event' = Ev("analyze_conversation", Empty, "no_documents", FALSE, FALSE, "showerror", NoPrompts)
            /\ UNCHANGED <<status_label, update_depth>>
       ELSE IF check = "too_short"
       THEN /\ event' = Ev("analyze_conversation", Empty, "too_short", FALSE, FALSE, "showwarning", NoPrompts)
            /\ UNCHANGED <<status_label, update_depth>>
       ELSE /\ update_depth < MaxDepth
            /\ update_depth + Len(results_windows) < MaxWindows
            /\ status_label' = StatusAnalyzing
            /\ update_depth' = update_depth + 1
            /\ event' = Ev("analyze_conversation", Empty, "updating", FALSE, FALSE, "none", NoPrompts)
    /\ UNCHANGED <<variant, observed, call, conversation_messages, job_description, candidate_resume,
                   candidate_resumes, resume_listbox, interview_suggestions,
                   suggestion_text, current_sender, results_windows>>

\* analyze_conversation after root.update() returned: analyze_candidate_fit,
\* then generate_interview_questions, then show_analysis_results; an
\* exception of either call leaves the callback
Try_analyze_conversation_resume(reply1, reply2) ==
    /\ variant = "try"
    /\ update_depth > 0
    /\ update_depth' = update_depth - 1
    /\ LET fit == Try_analyze_candidate_fit(conversation_messages, job_description,
                                            candidate_resumes, reply1)
           qs == generate_interview_questions(job_description, candidate_resumes, reply2)
       IN
       IF fit.raised
       THEN /\ event' = Ev("analyze_conversation", Empty, "call_raised", TRUE, TRUE, "none", fit.prompts)
            /\ UNCHANGED <<status_label, results_windows>>
       ELSE IF qs.raised
       THEN /\ event' = Ev("analyze_conversation", Empty, "questions_raised", TRUE, TRUE, "none",
                           fit.prompts \o qs.prompts)
            /\ UNCHANGED <<status_label, results_windows>>
       ELSE /\ status_label' = StatusComplete
            /\ results_windows' = Append(results_windows,
                     [analysis |-> fit.text, questions |-> qs.text,
                      messages_sent |-> Remembered(Len(fit.prompts[1].conversation))])
            /\ event' = Ev("analyze_conversation", Empty, "shown", FALSE, FALSE, "none",
                           fit.prompts \o qs.prompts)
    /\ UNCHANGED <<variant, observed, call, conversation_messages, job_description, candidate_resume,
                   candidate_resumes, resume_listbox, interview_suggestions,
                   suggestion_text, current_sender>>

\* a clear that forgets to empty the resume listbox
Try_clear_chat_keeps_listbox(yes) ==
    /\ variant = "try"
    /\ IF yes
       THEN /\ conversation_messages' = << >>
            /\ candidate_resumes' = << >>
            /\ interview_suggestions' = << >>
            /\ suggestion_text' = Empty
            /\ current_sender' = "Recruiter"
            /\ status_label' = StatusInitial
            /\ event' = Ev("clear_chat", <<"yes">>, "cleared", FALSE, FALSE, "askyesno", NoPrompts)
            /\ UNCHANGED resume_listbox
       ELSE /\ event' = Ev("clear_chat", <<"no">>, "declined", FALSE, FALSE, "askyesno", NoPrompts)
            /\ UNCHANGED <<conversation_messages, candidate_resumes, interview_suggestions,
                           resume_listbox, suggestion_text, current_sender, status_label>>
    /\ UNCHANGED <<variant, observed, call, job_description, candidate_resume, results_windows, update_depth>>

Try_clear_chat(yes) ==
    /\ variant = "try"
    /\ IF yes
       THEN /\ conversation_messages' = << >>
            /\ candidate_resumes' = << >>
            /\ interview_suggestions' = << >>
            /\ resume_listbox' = << >>
            /\ suggestion_text' = Empty
            /\ current_sender' = "Recruiter"
            /\ status_label' = StatusInitial
            /\ event' = Ev("clear_chat", <<"yes">>, "cleared", FALSE, FALSE, "askyesno", NoPrompts)
       ELSE /\ event' = Ev("clear_chat", <<"no">>, "declined", FALSE, FALSE, "askyesno", NoPrompts)
            /\ UNCHANGED <<conversation_messages, candidate_resumes, interview_suggestions,
                           resume_listbox, suggestion_text, current_sender, status_label>>
    /\ UNCHANGED <<variant, observed, call, job_description, candidate_resume, results_windows, update_depth>>

--------------------------------------------------------------------------
(* Callbacks that are the same in both programs *)

\* a click on one of the two sender radiobuttons
select_sender(s) ==
    /\ current_sender' = s
    /\ event' = Ev("select_sender", <<s>>, "selected", FALSE, FALSE, "none", NoPrompts)
    /\ UNCHANGED <<variant, observed, call, conversation_messages, job_description, candidate_resume,
                   candidate_resumes, resume_listbox, interview_suggestions,
                   suggestion_text, status_label, results_windows, update_depth>>

\* the Close button of the i-th open results window
close_results_window(i) ==
    /\ i \in 1..Len(results_windows)
    /\ results_windows' = [k \in 1..(Len(results_windows) - 1) |->
                              IF k < i THEN results_windows[k] ELSE results_windows[k + 1]]
    /\ event' = Ev("close_results_window", Empty, "closed", FALSE, FALSE, "none", NoPrompts)
    /\ UNCHANGED <<variant, observed, call, conversation_messages, job_description, candidate_resume,
                   candidate_resumes, resume_listbox, interview_suggestions,
                   suggestion_text, current_sender, status_label, update_depth>>

\* asksaveasfilename: a name, or nothing when the dialog is cancelled
SavePicks == {Empty, <<"o">>}

\* main.py save_analysis, the Save Analysis button of the i-th open results
\* window: the report is written from the analysis the window was opened
\* with and from the globals as they are when the button is clicked
Main_save_analysis(i, file_path) ==
    /\ variant = "main"
    /\ i \in 1..Len(results_windows)
    /\ LET arg == [window |-> i, file_path |-> file_path] IN
       IF file_path = Empty
       THEN event' = Ev("save_analysis", arg, "cancelled", FALSE, FALSE, "none", NoPrompts)
       ELSE event' = Scoring(Reporting(Ev("save_analysis", arg, "saved", FALSE, FALSE,
                                          "info", NoPrompts),
                                       [kind |-> "text",
                                        messages_analyzed |-> Len(conversation_messages),
                                        analysis |-> results_windows[i].analysis]),
                             <<[jd |-> job_description, resume |-> candidate_resume]>>)
    /\ UNCHANGED <<variant, observed, call, conversation_messages, job_description, candidate_resume,
                   candidate_resumes, resume_listbox, interview_suggestions,
                   suggestion_text, current_sender, status_label, results_windows,
                   update_depth>>

\* analysis.replace('*', '')
RECURSIVE remove_asterisks(_)
remove_asterisks(s) ==
    IF s = Empty THEN Empty
    ELSE IF Head(s) = "*" THEN remove_asterisks(Tail(s))
    ELSE <<Head(s)>> \o remove_asterisks(Tail(s))

\* s.split('\n\n') from position i on, section being the part read so far
RECURSIVE split_sections(_, _, _)
split_sections(s, i, section) ==
    IF i > Len(s) THEN <<section>>
    ELSE IF i + 1 <= Len(s) /\ s[i] = NL /\ s[i + 1] = NL
    THEN <<section>> \o split_sections(s, i + 2, Empty)
    ELSE split_sections(s, i + 1, Append(section, s[i]))

\* try.py save_pdf_report: the paragraphs of the report after title and date
save_pdf_report(analysis) ==
    [kind |-> "pdf", sections |-> split_sections(remove_asterisks(analysis), 1, Empty)]

\* try.py save_report, the Save PDF Report button of the i-th results window
Try_save_report(i, file_path) ==
    /\ variant = "try"
    /\ i \in 1..Len(results_windows)
    /\ LET arg == [window |-> i, file_path |-> file_path] IN
       IF file_path = Empty
       THEN event' = Ev("save_report", arg, "cancelled", FALSE, FALSE, "none", NoPrompts)
       ELSE event' = Reporting(Ev("save_report", arg, "saved", FALSE, FALSE, "info", NoPrompts),
                               save_pdf_report(results_windows[i].analysis))
    /\ UNCHANGED <<variant, observed, call, conversation_messages, job_description, candidate_resume,
                   candidate_resumes, resume_listbox, interview_suggestions,
                   suggestion_text, current_sender, status_label, results_windows,
                   update_depth>>

--------------------------------------------------------------------------

Next ==
    \/ \E p \in FilePicks : Main_load_job_description(p)
    \/ \E p \in FilePicks : Main_load_candidate_resume(p)
    \/ \E t \in TypedTexts, ts \in Timestamps : Main_send_message(t, ts)
    \/ Main_analyze_conversation
    \/ \E r \in AnalysisReplies : Main_analyze_conversation_resume(r)
    \/ \E yes \in BOOLEAN : Main_clear_chat(yes)
    \/ \E p \in FilePicks : Try_load_job_description(p)
    \/ \E p \in FilePicks : Try_load_candidate_resume(p)
    \/ \E t \in TypedTexts, ts \in Timestamps, r \in LLMReplies : Try_send_message(t, ts, r)
    \/ Try_analyze_conversation
    \/ \E r1 \in AnalysisReplies, r2 \in AnalysisReplies : Try_analyze_conversation_resume(r1, r2)
    \/ \E yes \in BOOLEAN : Try_clear_chat(yes)
    \/ \E s \in Senders : select_sender(s)
    \/ \E i \in 1..MaxWindows : close_results_window(i)
    \/ \E i \in 1..MaxWindows, p \in SavePicks : Main_save_analysis(i, p)
    \/ \E i \in 1..MaxWindows, p \in SavePicks : Try_save_report(i, p)

Spec == Init /\ [][Next]_vars

\* the same program, observed through the steps of one group of callbacks
InitAnalyze == Init /\ observed = AnalyzeOps
InitChat == Init /\ observed = ChatOps
InitLoad == Init /\ observed = LoadOps
InitSave == Init /\ observed = SaveOps
InitScoreCalls == Init /\ observed = ScoreOps

SpecAnalyze == InitAnalyze /\ [][Next]_vars
SpecChat == InitChat /\ [][Next]_vars
SpecLoad == InitLoad /\ [][Next]_vars
SpecSave == InitSave /\ [][Next]_vars
SpecScoreCalls == InitScoreCalls /\ [][Next]_vars

--------------------------------------------------------------------------
(* Functions studied on their own: the program stands still in the state   *)
(* after construction with nothing loaded, the inputs of the function are  *)
(* drawn at the start and one step applies the function.                   *)

ProgramIdle ==
    /\ variant = "main"
    /\ conversation_messages = << >>
    /\ job_description = Empty
    /\ candidate_resume = Empty
    /\ candidate_resumes = << >>
    /\ resume_listbox = << >>
    /\ interview_suggestions = << >>
    /\ suggestion_text = Empty
    /\ current_sender = "Recruiter"
    /\ status_label = StatusInitial
    /\ results_windows = << >>
    /\ update_depth = 0
    /\ observed = {}
    /\ event = Quiet

\* response.content: the texts over backslash, asterisk, letters and blank
Letters == {"a", "b"}
ResponseAlphabet == {BS, "*", " "} \cup Letters
Contents == UNION {[1..n -> ResponseAlphabet] : n \in 0..MaxContentLen}

InitCleanup ==
    /\ ProgramIdle
    /\ call \in {[fn |-> "cleanup", args |-> <<c>>, done |-> FALSE, result |-> Empty] :
                    c \in Contents}

\* the re.sub(...).strip() expression applied to the drawn response
apply_cleanup ==
    /\ call.fn = "cleanup"
    /\ ~call.done
    /\ call' = [call EXCEPT !.done = TRUE, !.result = cleanup(call.args[1])]
    /\ UNCHANGED program

NextCleanup == apply_cleanup

SpecCleanup == InitCleanup /\ [][NextCleanup]_vars

\* embedding_model.encode: the model is a function from texts to vectors;
\* the vectors drawn here are the integer points of one circle, so that
\* every cosine is a whole number of hundredths
Embeddings ==
    {v \in (-5..5) \X (-5..5) : v[1] * v[1] + v[2] * v[2] = 25}

\* the texts the program can hold: those of the readable documents
ScoredTexts == {read_document(p).text : p \in {q \in Paths : Disk[q].readable}}

dot(u, v) == u[1] * v[1] + u[2] * v[2]

isqrt(n) == CHOOSE r \in 0..n : r * r <= n /\ (r + 1) * (r + 1) > n

\* util.pytorch_cos_sim(a, b).item(), in hundredths
pytorch_cos_sim(a, b) ==
    (dot(a, b) * 100) \div isqrt(dot(a, a) * dot(b, b))

\* calculate_match_score(jd, resume) with the embedding model encode; the
\* score is in hundredths
calculate_match_score(jd, resume, encode) ==
    LET jd_embedding == encode[jd]
        resume_embedding == encode[resume]
        similarity == pytorch_cos_sim(jd_embedding, resume_embedding)
    IN  similarity * 10

InitScore ==
    /\ ProgramIdle
    /\ call \in {[fn |-> "calculate_match_score", args |-> <<jd, resume, encode>>,
                  done |-> FALSE, result |-> 0] :
                    jd \in ScoredTexts, resume \in ScoredTexts,
                    encode \in [ScoredTexts -> Embeddings]}

apply_calculate_match_score ==
    /\ call.fn = "calculate_match_score"
    /\ ~call.done
    /\ call' = [call EXCEPT !.done = TRUE,
                            !.result = calculate_match_score(call.args[1], call.args[2],
                                                             call.args[3])]
    /\ UNCHANGED program

NextScore == apply_calculate_match_score

SpecScore == InitScore /\ [][NextScore]_vars

--------------------------------------------------------------------------
(* Properties *)

\* the condition analyze_conversation validates, on the current state
ResumeLoaded ==
    IF variant = "main" THEN candidate_resume # Empty ELSE candidate_resumes # << >>

AnalysisPrecondition ==
    /\ job_description # Empty
    /\ ResumeLoaded
    /\ Len(conversation_messages) >= 3

IsPrefix(s, t) == Len(s) <= Len(t) /\ SubSeq(t, 1, Len(s)) = s

AllWhitespace(t) == \A i \in 1..Len(t) : t[i] \in Whitespace

\* m is t without its leading and trailing whitespace
IsStripOf(m, t) ==
    /\ m # Empty
    /\ m[1] \notin Whitespace
    /\ m[Len(m)] \notin Whitespace
    /\ \E i \in 0..Len(t) :
          /\ i + Len(m) <= Len(t)
          /\ SubSeq(t, i + 1, i + Len(m)) = m
          /\ AllWhitespace(SubSeq(t, 1, i))
          /\ AllWhitespace(SubSeq(t, i + Len(m) + 1, Len(t)))

\* C1: a step of analyze_conversation sends a prompt to the model only from
\* a state where the job description is non-empty, a resume is loaded and
\* the log holds at least 3 messages.
C1_RemoteCallOnlyWhenValid ==
    [][(event'.op = "analyze_conversation" /\ event'.prompts # NoPrompts)
          => AnalysisPrecondition]_vars

\* C2: an analyze request made in a state that fails the validation leaves
\* the log, the documents, the sender, the suggestions and the status label
\* as they were, opens no window and does not enter root.update().
C2_RejectedAnalyzeChangesNothing ==
    [][(/\ event'.op = "analyze_conversation"
        /\ update_depth' >= update_depth
        /\ ~AnalysisPrecondition)
          => /\ UNCHANGED session
             /\ UNCHANGED <<results_windows, update_depth>>
             /\ event'.prompts = NoPrompts]_vars

C2_Witness ==
    /\ event.op = "analyze_conversation"
    /\ event.result = "too_short"
    /\ Len(conversation_messages) = 2
    /\ job_description # Empty
    /\ ResumeLoaded

\* C3: when a remote call of a full analysis fails, the failing step leaves
\* the log and the documents alone and the state it ends in passes the
\* validation again (the state is the one the request was validated on).
C3_FailedAnalysisCanBeRetried ==
    [][(event'.op = "analyze_conversation" /\ event'.failed)
          => /\ UNCHANGED <<conversation_messages, docs>>
             /\ AnalysisPrecondition']_vars

\* C4: when a remote call of a full analysis fails, the user is told (a
\* dialog is shown), no results window is added, and the status label is
\* neither the "Analyzing" text nor "Analysis complete".
C4_FailedAnalysisIsReported ==
    [][(event'.op = "analyze_conversation" /\ event'.failed)
          => /\ event'.dialog # "none"
             /\ results_windows' = results_windows
             /\ status_label' \notin {StatusAnalyzing, StatusComplete}]_vars

\* C5: in try.py, when the model call of a dynamic suggestion fails, the
\* send completes: the message is the last record of the log, no suggestion
\* is stored, the suggestion label is empty, the sender is toggled, no
\* exception leaves send_message and exactly one call was made.
C5_FailedSuggestionDegrades ==
    [][(event'.op = "send_message" /\ event'.failed)
          => /\ Len(conversation_messages') = Len(conversation_messages) + 1
             /\ IsPrefix(conversation_messages, conversation_messages')
             /\ IsStripOf(conversation_messages'[Len(conversation_messages')].message,
                          event'.arg)
             /\ interview_suggestions' = interview_suggestions
             /\ suggestion_text' = Empty
             /\ current_sender' = toggle(current_sender)
             /\ ~event'.raised
             /\ Len(event'.prompts) = 1]_vars

C5_Witness ==
    /\ variant = "try"
    /\ event.op = "send_message"
    /\ event.failed
    /\ Len(conversation_messages) > 3
    /\ conversation_messages[Len(conversation_messages)].sender # current_sender
    /\ suggestion_text = Empty

\* C6: a load whose dialog is cancelled, or whose file cannot be read,
\* leaves the job description, the resume(s), the listbox names and the
\* log as they were.
C6_FailedLoadChangesNothing ==
    [][(/\ event'.op \in {"load_job_description", "load_candidate_resume"}
        /\ (event'.arg = Empty \/ ~Disk[event'.arg].readable))
          => UNCHANGED <<docs, conversation_messages>>]_vars

C6_Witness ==
    /\ event.op \in {"load_job_description", "load_candidate_resume"}
    /\ event.arg = BadTxt
    /\ job_description # Empty
    /\ ResumeLoaded

\* C7: a send of blank text changes nothing and calls nothing; a send of
\* non-blank text appends exactly one record, with the selected sender and
\* the text without its surrounding whitespace.
C7_BlankSendIsNoOp ==
    [][event'.op = "send_message"
          => IF AllWhitespace(event'.arg)
             THEN /\ UNCHANGED session
                  /\ event'.prompts = NoPrompts
             ELSE /\ Len(conversation_messages') = Len(conversation_messages) + 1
                  /\ IsPrefix(conversation_messages, conversation_messages')
                  /\ conversation_messages'[Len(conversation_messages')].sender = current_sender
                  /\ IsStripOf(conversation_messages'[Len(conversation_messages')].message,
                               event'.arg)]_vars

C7_Witness ==
    /\ event.op = "send_message"
    /\ event.arg # Empty
    /\ AllWhitespace(event.arg)
    /\ conversation_messages # << >>

\* C8: every step that is not a confirmed clear keeps the log it starts
\* from as a prefix of the log it ends with, and a send that changes the
\* log adds one record at the end.
C8_LogAppendOnly ==
    [][/\ ~(event'.op = "clear_chat" /\ event'.arg = <<"yes">>)
          => IsPrefix(conversation_messages, conversation_messages')
       /\ (event'.op = "send_message" /\ conversation_messages' # conversation_messages)
          => /\ Len(conversation_messages') = Len(conversation_messages) + 1
             /\ IsPrefix(conversation_messages, conversation_messages')]_vars

C8_Witness ==
    /\ event.op = "send_message"
    /\ Len(conversation_messages) >= 3
    /\ conversation_messages[1].sender = "Candidate"
    /\ conversation_messages[2].sender = "Candidate"

\* C9: a confirmed clear empties the log and resets the sender to
\* Recruiter (try.py: it also empties the resumes, their names and the
\* suggestions) and keeps the job description; a declined clear changes
\* nothing.
C9_ClearResets ==
    [][event'.op = "clear_chat"
          => IF event'.arg = <<"yes">>
             THEN /\ conversation_messages' = << >>
                  /\ current_sender' = "Recruiter"
                  /\ job_description' = job_description
                  /\ variant = "try" =>
                        /\ candidate_resumes' = << >>
                        /\ resume_listbox' = << >>
                        /\ interview_suggestions' = << >>
             ELSE /\ UNCHANGED session
                  /\ UNCHANGED <<results_windows, update_depth>>]_vars

C9_Witness ==
    /\ event.op = "clear_chat"
    /\ event.arg = <<"yes">>
    /\ job_description # Empty
    /\ conversation_messages = << >>

\* the condition under which try.py asks for a dynamic suggestion, on the
\* state the call is made in
SuggestionCondition ==
    /\ Len(conversation_messages) >= 2
    /\ job_description # Empty
    /\ candidate_resumes # << >>

\* C10: in try.py a send calls the model for a suggestion only when the log
\* holds at least 2 messages, the job description is non-empty and a resume
\* is loaded; otherwise the send calls nothing, stores no suggestion and
\* raises nothing.
C10_SuggestionOnlyWhenReady ==
    [][(variant = "try" /\ event'.op = "send_message")
          => /\ event'.prompts # NoPrompts => SuggestionCondition'
             /\ ~SuggestionCondition' =>
                   /\ event'.prompts = NoPrompts
                   /\ interview_suggestions' = interview_suggestions
                   /\ ~event'.raised]_vars

C10_Witness ==
    /\ variant = "try"
    /\ event.op = "send_message"
    /\ event.prompts # NoPrompts
    /\ SuggestionCondition

\* a backslash immediately followed by an asterisk at position i of s
EscapedAsteriskAt(s, i) ==
    i + 1 <= Len(s) /\ s[i] = BS /\ s[i + 1] = "*"

\* the end of the word that a marker at i opens: the position j of the next
\* escaped asterisk when only letters, and at least one, lie in between
ClosingMarkers(s, i) ==
    {j \in (i + 3)..Len(s) :
        /\ EscapedAsteriskAt(s, j)
        /\ \A k \in (i + 2)..(j - 1) : s[k] \in Letters}

\* the words enclosed by \*word\* markers in s from position i on, in order
RECURSIVE EnclosedWords(_, _)
EnclosedWords(s, i) ==
    IF i > Len(s) THEN << >>
    ELSE IF EscapedAsteriskAt(s, i) /\ ClosingMarkers(s, i) # {}
    THEN LET j == CHOOSE c \in ClosingMarkers(s, i) : TRUE
         IN  <<SubSeq(s, i + 2, j - 1)>> \o EnclosedWords(s, j)
    ELSE EnclosedWords(s, i + 1)

\* the words occur in t, one after the other, from position i on
RECURSIVE OccurInOrder(_, _, _)
OccurInOrder(words, t, i) ==
    \/ words = << >>
    \/ \E k \in i..(Len(t) - Len(Head(words)) + 1) :
          /\ SubSeq(t, k, k + Len(Head(words)) - 1) = Head(words)
          /\ OccurInOrder(Tail(words), t, k + Len(Head(words)))

\* C11: for every response text that contains \*word\* markers, the cleaned
\* text has no backslash immediately followed by an asterisk, and the
\* enclosed words appear in it unchanged and in the same order.
C11_CleanupRemovesEscapedAsterisks ==
    (call.fn = "cleanup" /\ call.done /\ EnclosedWords(call.args[1], 1) # << >>)
        => /\ \A i \in 1..Len(call.result) : ~EscapedAsteriskAt(call.result, i)
           /\ OccurInOrder(EnclosedWords(call.args[1], 1), call.result, 1)

\* C12: the score returned by calculate_match_score lies in [0, 10]
\* (0..1000 hundredths), whatever cosine the embeddings of the two texts have.
C12_ScoreInRange ==
    (call.fn = "calculate_match_score" /\ call.done)
        => (0 <= call.result /\ call.result <= 1000)

\* C13: every call of calculate_match_score that a step makes (update_status
\* after a load or at start, the report saved from a results window) has a
\* non-empty job description text and a non-empty resume text.
C13_ScoreOnlyOnLoadedTexts ==
    \A k \in 1..Len(event.scored) :
        event.scored[k].jd # Empty /\ event.scored[k].resume # Empty

\* C14: while analyze_conversation is inside root.update(), between its
\* precondition check and its remote call, no other handler runs: the only
\* step taken from such a state is the continuation of analyze_conversation.
C14_NoHandlerInsideAnalyze ==
    [][update_depth > 0 => update_depth' = update_depth - 1]_vars

C16_SavedCountIsAnalyzedCount ==
    (event.op = "save_analysis" /\ event.result = "saved")
        => event.report.messages_analyzed
              = results_windows[event.arg.window].messages_sent

====
